---- MODULE Spec2Model ----
(***************************************************************************)
(* Multi-Vendor Data Fetch Service: the job store (app/database.py,        *)
(* app/models.py), the HTTP handlers (app/main.py), the Celery tasks and   *)
(* the rate limiter (app/tasks.py) and the two mock vendors.               *)
(*                                                                         *)
(* Time is counted in ticks of 1/TicksPerSecond second, so that the        *)
(* truncation int(time.time()) of update_rate_limit is visible.            *)
(* Strings are sequences of one-character strings; a JSON value is a       *)
(* record [t, s, n, d] (tag, string, number, dict-or-list contents).       *)
(***************************************************************************)
EXTENDS Integers, Sequences, FiniteSets, TLC

\* ------------------------------------------------------------------ bounds
MaxJobs == 2
MaxWebhooks == 2
MaxQuota == 3
MaxJobQuota == 1
MaxQueued == 1
MaxClockSteps == 3
MaxJobClockSteps == 1
MaxAcquisitions == 4
TicksPerSecond == 3
Epoch == 200

\* ------------------------------------------------------- program constants
\* tasks.py:27  minute_ago = current_time - 60
MinuteSeconds == 60
\* tasks.py:93  time.sleep(2)
SleepSeconds == 2

\* app/models.py: VendorType
VendorTypes == {"sync", "async"}

None == <<>>
Some(x) == <<x>>

\* ------------------------------------------------------------- JSON values
Str(s) == [t |-> "str", s |-> s, n |-> 0, d |-> <<>>]
Num(n) == [t |-> "num", s |-> <<>>, n |-> n, d |-> <<>>]
Dict(d) == [t |-> "dict", s |-> <<>>, n |-> 0, d |-> d]
List(l) == [t |-> "list", s |-> <<>>, n |-> 0, d |-> l]

\* dict.get(key) of a JSON dict: None when the key is missing
Get(dict, key) == IF key \in DOMAIN dict.d THEN Some(dict.d[key]) ELSE None

\* ----------------------------------------------------------------- strings
UpperLetters ==
  <<"A","B","C","D","E","F","G","H","I","J","K","L","M",
    "N","O","P","Q","R","S","T","U","V","W","X","Y","Z">>
LowerLetters ==
  <<"a","b","c","d","e","f","g","h","i","j","k","l","m",
    "n","o","p","q","r","s","t","u","v","w","x","y","z">>
Whitespace == {" ", "\t", "\n"}

LowerChar(c) ==
  IF \E i \in 1..Len(UpperLetters) : UpperLetters[i] = c
  THEN LowerLetters[CHOOSE i \in 1..Len(UpperLetters) : UpperLetters[i] = c]
  ELSE c

\* str.lower()
lower(s) == [i \in 1..Len(s) |-> LowerChar(s[i])]

\* sub in s
Contains(sub, s) ==
  \E i \in 1..(Len(s) - Len(sub) + 1) : SubSeq(s, i, i + Len(sub) - 1) = sub

\* a strip that takes off one whitespace character, at the front if there is
\* one there, else at the end
strip_one(s) ==
  IF s # <<>> /\ s[1] \in Whitespace THEN SubSeq(s, 2, Len(s))
  ELSE IF s # <<>> /\ s[Len(s)] \in Whitespace THEN SubSeq(s, 1, Len(s) - 1)
  ELSE s

\* str.strip()
strip(s) ==
  LET keep == {i \in 1..Len(s) : s[i] \notin Whitespace}
  IN IF keep = {} THEN <<>>
     ELSE SubSeq(s, CHOOSE i \in keep : \A j \in keep : i <= j,
                    CHOOSE i \in keep : \A j \in keep : j <= i)

\* tasks.py:55  ["email", "phone", "ssn", "password"]
PiiWords ==
  { <<"e","m","a","i","l">>, <<"p","h","o","n","e">>, <<"s","s","n">>,
    <<"p","a","s","s","w","o","r","d">> }
Redacted == <<"[","R","E","D","A","C","T","E","D","]">>

\* tasks.py:47-65  clean_vendor_response, on the contents of a JSON dict
RECURSIVE clean_vendor_response(_)
clean_vendor_response(data) ==
  Dict([key \in DOMAIN data.d |->
    LET value == data.d[key] IN
    CASE value.t = "str" ->
           IF \E pii \in PiiWords : Contains(pii, lower(key))
           THEN Str(Redacted)
           ELSE Str(strip(value.s))
      [] value.t = "dict" -> clean_vendor_response(value)
      [] value.t = "list" ->
           List([i \in 1..Len(value.d) |->
                   IF value.d[i].t = "dict"
                   THEN clean_vendor_response(value.d[i])
                   ELSE value.d[i]])
      [] OTHER -> value])

\* ------------------------------------------------------------- identifiers
Digits == <<"1","2","3","4","5","6">>
\* a vendor that answers every /submit with the same response_id
ResponseId_reused(n) == <<"r", Digits[1]>>
\* main.py:90  request_id = str(uuid.uuid4()): the n-th fresh job id
RequestId(n) == <<"j", Digits[n]>>
\* async_vendor.py:123  response_id = str(uuid.uuid4()): the n-th fresh id
ResponseId(n) == <<"r", Digits[n]>>
RequestIds == {RequestId(n) : n \in 1..MaxJobs}
ResponseIds == {ResponseId(n) : n \in 1..MaxJobs}
\* an identifier that is neither a job id nor a response id
StrayId == <<"z">>
CallbackIds == RequestIds \cup ResponseIds \cup {StrayId}

\* -------------------------------------------------------------------- keys
K_response_id == <<"r","e","s","p","o","n","s","e","_","i","d">>
K_vendor_id == <<"v","e","n","d","o","r","_","i","d">>
K_status == <<"s","t","a","t","u","s">>
K_result == <<"r","e","s","u","l","t">>
K_data == <<"d","a","t","a">>
K_processed_data == <<"p","r","o","c","e","s","s","e","d","_","d","a","t","a">>
K_field1 == <<"f","i","e","l","d","1">>
K_field2 == <<"f","i","e","l","d","2">>
K_email == <<"E","m","a","i","l">>
S_success == <<"s","u","c","c","e","s","s">>
S_padded_ok == <<" ","o","k"," ">>
S_address == <<"a","@","b">>
S_x == <<"x">>
S_default == <<"d","e","f","a","u","l","t">>

\* ------------------------------------------------------------------ inputs
\* the payloads a caller of POST /jobs sends: the raw one of the API test and
\* of the load test, and one wrapped in the "data" object the vendors expect
RawPayload == Dict((K_field1 :> Str(S_x)) @@ (K_field2 :> Num(5)))
WrappedPayload == Dict(K_data :> RawPayload)
Payloads == {RawPayload, WrappedPayload}

\* the "data" objects an outside caller of POST /vendor-webhook/{vendor} sends
ExternalData(id, variant) ==
  IF variant = 1
  THEN Dict((K_response_id :> Str(id)) @@ (K_status :> Str(S_padded_ok)))
  ELSE Dict((K_response_id :> Str(id)) @@ (K_email :> Str(S_address)))
\* test_api.py:117-120: response_id beside "data", not inside it
DataWithoutResponseId == Dict(K_status :> Str(S_success))
ExternalIds == {RequestId(1), ResponseId(1), StrayId}
ExternalDatas(k) ==
  {ExternalData(id, k) : id \in ExternalIds} \cup {DataWithoutResponseId}

VARIABLES
  required_fields,     \* models.py:43-52: JobDocument fields with no default
  settings,            \* config.py:18-19: the two per-minute quotas
  broker_up,           \* main.py:101: process_job.delay reaches the broker
  now,                 \* time.time(), in ticks
  clock_steps,         \* how many more times the clock may be advanced
  jobs,                \* database.py: jobs_collection, request_id -> document
  rate_limit_storage,  \* tasks.py:18-21
  pc,                  \* process_job task of each job: where it stands
  local,               \* process_job task of each job: its local variables
  webhook_tasks,       \* queued handle_vendor_webhook tasks
  webhooks_posted,     \* how many outside calls of the webhook endpoint
  pending_requests,    \* async_vendor.py:24: response_id -> submitted data
  issued,              \* how many response ids the async vendor has issued
  http_status,         \* status code of the last webhook HTTP response
  http_request,        \* the "data" of the webhook request it answered
  calls,               \* per job: how many POSTs to a vendor it has made
  raw_data,            \* a vendor response handed to clean_vendor_response
  cleaned_data,        \* tasks.py:49,65: what clean_vendor_response returned
  acq_hist             \* sequential acquisitions: <<time, vendor, admitted>>

vars ==
  <<required_fields, settings, broker_up, now, clock_steps, jobs, rate_limit_storage, pc,
    local, webhook_tasks, webhooks_posted, pending_requests, issued,
    http_status, http_request, calls, raw_data,
                 cleaned_data, acq_hist>>

\* ------------------------------------------------------------- the job store
\* models.py:43-52  JobDocument(**given): raises ValidationError when a field
\* without default is not given
JobDocument_validates(given) == required_fields \subseteq given

\* JobDocument with the default of status written PROCESSING
JobDocument_processing(request_id, payload, t) ==
  [request_id |-> request_id, status |-> "processing", payload |-> payload,
   result |-> None, error |-> None, vendor_type |-> None,
   vendor_response_id |-> None, created_at |-> t, updated_at |-> t]

\* models.py:43-52  the document JobDocument(request_id=.., payload=..) builds
JobDocument(request_id, payload, t) ==
  [request_id |-> request_id, status |-> "pending", payload |-> payload,
   result |-> None, error |-> None, vendor_type |-> None,
   vendor_response_id |-> None, created_at |-> t, updated_at |-> t]

\* update_one that leaves out the result of an update
update_one_without_result(js, request_id, update_data) ==
  IF request_id \in DOMAIN js
  THEN [js EXCEPT ![request_id] =
          [f \in DOMAIN js[request_id] |->
             IF f \in DOMAIN update_data /\ f # "result" THEN update_data[f]
             ELSE js[request_id][f]]]
  ELSE js

\* update_one that writes the update over the payload as well
update_one_over_payload(js, request_id, update_data) ==
  IF request_id \in DOMAIN js
  THEN [js EXCEPT ![request_id] =
          [f \in DOMAIN js[request_id] |->
             IF f \in DOMAIN update_data THEN update_data[f]
             ELSE IF f = "payload" THEN Dict(<<>>)
             ELSE js[request_id][f]]]
  ELSE js

\* update_one that replaces the document instead of setting fields: what the
\* update does not name falls back to its default
update_one_replace(js, request_id, update_data) ==
  IF request_id \in DOMAIN js
  THEN [js EXCEPT ![request_id] =
          [f \in DOMAIN js[request_id] |->
             IF f \in DOMAIN update_data THEN update_data[f]
             ELSE IF f \in {"request_id", "payload", "created_at", "status"}
             THEN js[request_id][f]
             ELSE None]]
  ELSE js

\* update_one with upsert=True: a request_id that matches no document inserts one
update_one_upsert(js, request_id, update_data) ==
  IF request_id \in DOMAIN js
  THEN [js EXCEPT ![request_id] =
          [f \in DOMAIN js[request_id] |->
             IF f \in DOMAIN update_data THEN update_data[f]
             ELSE js[request_id][f]]]
  ELSE js @@ (request_id :> update_data)

\* database.py:68  update_one({"request_id": request_id}, {"$set": update_data})
\* no upsert: a request_id that matches no document changes nothing
update_one(js, request_id, update_data) ==
  IF request_id \in DOMAIN js
  THEN [js EXCEPT ![request_id] =
          [f \in DOMAIN js[request_id] |->
             IF f \in DOMAIN update_data THEN update_data[f]
             ELSE js[request_id][f]]]
  ELSE js

\* database.py:64-72  update_job: line 67 builds JobDocument() with no
\* arguments to take its updated_at; the exception is logged and re-raised
update_job(js, request_id, update_data, t) ==
  IF JobDocument_validates({})
  THEN [raised |-> FALSE,
        jobs |-> update_one(js, request_id, update_data @@ [updated_at |-> t])]
  ELSE [raised |-> TRUE, jobs |-> js]

\* database.py:53-62  get_job: the document with this request_id, or None
get_job(js, request_id) ==
  IF request_id \in DOMAIN js THEN Some(js[request_id]) ELSE None

\* get_job_status that answers 200 with an empty body for an unknown id
get_job_status_always_ok(js, request_id) ==
  LET job == get_job(js, request_id) IN
  IF job = None THEN [status_code |-> 200, body |-> None]
  ELSE [status_code |-> 200,
        body |-> Some([request_id |-> job[1].request_id,
                       status |-> job[1].status,
                       result |-> job[1].result,
                       error |-> job[1].error,
                       created_at |-> job[1].created_at,
                       updated_at |-> job[1].updated_at])]

\* main.py:112-138  get_job_status: 404 when get_job finds nothing, else the
\* JobStatusResponse built from the document
get_job_status(js, request_id) ==
  LET job == get_job(js, request_id) IN
  IF job = None THEN [status_code |-> 404, body |-> None]
  ELSE [status_code |-> 200,
        body |-> Some([request_id |-> job[1].request_id,
                       status |-> job[1].status,
                       result |-> job[1].result,
                       error |-> job[1].error,
                       created_at |-> job[1].created_at,
                       updated_at |-> job[1].updated_at])]

\* ----------------------------------------------------------- rate limiter
\* check_rate_limit with the comparison of line 34 written ">" for ">="
check_rate_limit_off_by_one(storage, vendor_type, rate_limit, t) ==
  LET minute_ago == t - MinuteSeconds * TicksPerSecond
      reset == IF storage[vendor_type].last_request * TicksPerSecond < minute_ago
               THEN [storage EXCEPT ![vendor_type].requests_this_minute = 0]
               ELSE storage
  IN [ok |-> ~(reset[vendor_type].requests_this_minute > rate_limit),
      storage |-> reset]

\* tasks.py:24-37  check_rate_limit: the answer and the storage it leaves
check_rate_limit(storage, vendor_type, rate_limit, t) ==
  LET minute_ago == t - MinuteSeconds * TicksPerSecond
      reset == IF storage[vendor_type].last_request * TicksPerSecond < minute_ago
               THEN [storage EXCEPT ![vendor_type].requests_this_minute = 0]
               ELSE storage
  IN [ok |-> ~(reset[vendor_type].requests_this_minute >= rate_limit),
      storage |-> reset]

\* update_rate_limit that records nothing
update_rate_limit_noop(storage, vendor_type, t) == storage

\* tasks.py:40-44  update_rate_limit
update_rate_limit(storage, vendor_type, t) ==
  [storage EXCEPT ![vendor_type] =
     [last_request |-> t \div TicksPerSecond,
      requests_this_minute |-> @.requests_this_minute + 1]]

\* tasks.py:86-88  the quota of a vendor type
RateLimit(vendor_type) ==
  IF vendor_type = "sync" THEN settings.SYNC_VENDOR_RATE_LIMIT
  ELSE settings.ASYNC_VENDOR_RATE_LIMIT

\* ------------------------------------------------------------ mock vendors
S_sync_vendor_001 == <<"s","y","n","c","_","v","e","n","d","o","r","_","0","0","1">>
S_async_vendor_001 ==
  <<"a","s","y","n","c","_","v","e","n","d","o","r","_","0","0","1">>
S_processed_ == <<"p","r","o","c","e","s","s","e","d","_">>
S_async_processed_ == <<"a","s","y","n","c","_">> \o S_processed_

\* sync_vendor.py:22-23, async_vendor.py:27-28  ProcessRequest, SubmitRequest:
\* the body must be an object holding a "data" object, else FastAPI answers 422
VendorAccepts(payload) ==
  /\ K_data \in DOMAIN payload.d
  /\ payload.d[K_data].t = "dict"

\* data.get("field1", "default") and data.get("field2", 0)
Field1Of(data) ==
  IF K_field1 \in DOMAIN data.d /\ data.d[K_field1].t = "str"
  THEN data.d[K_field1].s ELSE S_default
Field2Of(data) ==
  IF K_field2 \in DOMAIN data.d /\ data.d[K_field2].t = "num"
  THEN data.d[K_field2].n ELSE 0

\* sync_vendor.py:70-88  response_data (the time stamp and the random fields
\* field3 and metadata carry no information and are left out)
SyncResponse(payload) ==
  LET data == payload.d[K_data] IN
  Dict((K_vendor_id :> Str(S_sync_vendor_001))
    @@ (K_status :> Str(S_success))
    @@ (K_result :>
          Dict((K_data :> data)
            @@ (K_processed_data :>
                  Dict((K_field1 :> Str(S_processed_ \o Field1Of(data)))
                    @@ (K_field2 :> Num(Field2Of(data) * 2)))))))

\* async_vendor.py:62-82  response_data (same fields left out)
AsyncResponseData(response_id, data) ==
  Dict((K_response_id :> Str(response_id))
    @@ (K_vendor_id :> Str(S_async_vendor_001))
    @@ (K_status :> Str(S_success))
    @@ (K_result :>
          Dict((K_data :> data)
            @@ (K_processed_data :>
                  Dict((K_field1 :> Str(S_async_processed_ \o Field1Of(data)))
                    @@ (K_field2 :> Num(Field2Of(data) * 3)))))))

\* async_vendor.py:133-138  the acknowledgment of /submit
SubmitAck(response_id) ==
  Dict((K_response_id :> Str(response_id)) @@ (K_status :> Str(<<"a","c","c","e","p","t","e","d">>)))

\* -------------------------------------------------------------------- Init
InitLocal == [vendor_type |-> None, wake |-> 0, response |-> None, exc |-> None]

InitCommon(quotas, steps) ==
  /\ settings \in [SYNC_VENDOR_RATE_LIMIT : quotas,
                   ASYNC_VENDOR_RATE_LIMIT : quotas]
  /\ now = Epoch
  /\ clock_steps = steps
  /\ jobs = <<>>
  /\ rate_limit_storage =
       [v \in VendorTypes |-> [last_request |-> 0, requests_this_minute |-> 0]]
  /\ pc = [j \in RequestIds |-> "none"]
  /\ local = [j \in RequestIds |-> InitLocal]
  /\ webhook_tasks = {}
  /\ webhooks_posted = 0
  /\ pending_requests = <<>>
  /\ issued = 0
  /\ http_status = 0
  /\ http_request = None
  /\ calls = [j \in RequestIds |-> 0]
  /\ acq_hist = <<>>

\* models.py:46 declares payload with no default: that is the shipped schema,
\* under which the JobDocument() of database.py:67 raises and no update of a
\* task reaches the store. The second schema gives payload a default, so that
\* JobDocument() builds: under it the updates written in tasks.py are applied.
Schemas == {{"payload"}, {}}

Init ==
  /\ required_fields \in Schemas
  /\ broker_up = TRUE
  /\ InitCommon(1..MaxJobQuota, MaxJobClockSteps)
  /\ raw_data = None
  /\ cleaned_data = None

\* ------------------------------------------------------------------- clock
\* the clock advances by one tick or by one tick less than a minute
ClockSteps == {1, MinuteSeconds * TicksPerSecond - 1}

Tick ==
  /\ clock_steps > 0
  /\ \E d \in ClockSteps : now' = now + d
  /\ clock_steps' = clock_steps - 1
  /\ UNCHANGED <<required_fields, settings, broker_up, jobs, rate_limit_storage, pc, local,
                 webhook_tasks, webhooks_posted, pending_requests, issued,
                 http_status, http_request, calls, raw_data,
                 cleaned_data, acq_hist>>

\* ------------------------------------------------------------------ intake
\* main.py:80-109  create_job: the document is inserted (line 98), then
\* process_job.delay queues the task (line 101); when delay raises, the handler
\* answers 500 (lines 107-109) and the inserted document stays
create_job ==
  /\ Cardinality(DOMAIN jobs) < MaxJobs
  /\ \E payload \in Payloads :
       LET request_id == RequestId(Cardinality(DOMAIN jobs) + 1) IN
       /\ JobDocument_validates({"request_id", "payload"})
       /\ jobs' = jobs @@ (request_id :> JobDocument(request_id, payload, now))
       /\ pc' = IF broker_up THEN [pc EXCEPT ![request_id] = "queued"] ELSE pc
  /\ UNCHANGED <<required_fields, settings, broker_up, now, clock_steps, rate_limit_storage,
                 local, webhook_tasks, webhooks_posted, pending_requests, issued,
                 http_status, http_request, calls, raw_data,
                 cleaned_data, acq_hist>>

\* ------------------------------------------------------------- process_job
\* what every step of process_job leaves alone
UNCHANGED_by_process_job ==
  UNCHANGED <<required_fields, settings, broker_up, now, clock_steps, webhook_tasks,
              webhooks_posted, http_status, http_request, raw_data,
              cleaned_data, acq_hist>>

\* tasks.py:71-88  the first update (status := processing), then the choice
\* of the vendor type; an exception of the update goes to line 140
pj_begin(j) ==
  /\ pc[j] = "queued"
  /\ LET r == update_job(jobs, j, [status |-> "processing"], now) IN
     IF r.raised
     THEN /\ pc' = [pc EXCEPT ![j] = "except"]
          /\ local' = [local EXCEPT ![j].exc = Some("ValidationError")]
          /\ UNCHANGED jobs
     ELSE /\ jobs' = r.jobs
          /\ \E vendor_type \in VendorTypes :
               local' = [local EXCEPT ![j].vendor_type = Some(vendor_type)]
          /\ pc' = [pc EXCEPT ![j] = "check"]
  /\ UNCHANGED <<rate_limit_storage, pending_requests, issued, calls>>
  /\ UNCHANGED_by_process_job

\* tasks.py:90-93  one turn of the loop: check_rate_limit, and on a denial
\* time.sleep(2) before the next check
pj_check(j) ==
  /\ pc[j] = "check"
  /\ now >= local[j].wake
  /\ LET vendor_type == local[j].vendor_type[1]
         c == check_rate_limit(rate_limit_storage, vendor_type,
                               RateLimit(vendor_type), now)
     IN /\ rate_limit_storage' = c.storage
        /\ IF c.ok
           THEN /\ pc' = [pc EXCEPT ![j] = "admit"]
                /\ UNCHANGED local
           ELSE /\ local' = [local EXCEPT
                               ![j].wake = now + SleepSeconds * TicksPerSecond]
                /\ UNCHANGED pc
  /\ UNCHANGED <<jobs, pending_requests, issued, calls>>
  /\ UNCHANGED_by_process_job

\* tasks.py:95-99  update_rate_limit, then the update vendor_type := chosen
pj_admit(j) ==
  /\ pc[j] = "admit"
  /\ LET vendor_type == local[j].vendor_type[1]
         r == update_job(jobs, j, [vendor_type |-> Some(vendor_type)], now)
     IN /\ rate_limit_storage' =
             update_rate_limit(rate_limit_storage, vendor_type, now)
        /\ IF r.raised
           THEN /\ pc' = [pc EXCEPT ![j] = "except"]
                /\ local' = [local EXCEPT ![j].exc = Some("ValidationError")]
                /\ UNCHANGED jobs
           ELSE /\ jobs' = r.jobs
                /\ pc' = [pc EXCEPT ![j] = "call"]
                /\ UNCHANGED local
  /\ UNCHANGED <<pending_requests, issued, calls>>
  /\ UNCHANGED_by_process_job

\* tasks.py:101-107, 119-122 with vendor_client.py:17-37: the POST of the
\* payload to /process or /submit. It succeeds only with a body the vendor
\* accepts; a transport failure, a timeout or a non-2xx answer raises.
\* async_vendor.py:109-138: /submit issues a fresh response_id and stores the
\* request in pending_requests.
pj_call_vendor(j) ==
  /\ pc[j] = "call"
  /\ LET payload == jobs[j].payload
         vendor_type == local[j].vendor_type[1]
     IN \E outcome \in {"ok", "error"} :
          IF outcome = "error"
          THEN /\ pc' = [pc EXCEPT ![j] = "except"]
               /\ local' = [local EXCEPT ![j].exc = Some("HTTPError")]
               /\ UNCHANGED <<pending_requests, issued>>
          ELSE /\ VendorAccepts(payload)
               /\ pc' = [pc EXCEPT ![j] = "store"]
               /\ IF vendor_type = "sync"
                  THEN /\ local' = [local EXCEPT
                                      ![j].response = Some(SyncResponse(payload))]
                       /\ UNCHANGED <<pending_requests, issued>>
                  ELSE LET response_id == ResponseId(issued + 1) IN
                       /\ issued' = issued + 1
                       /\ pending_requests' =
                            pending_requests @@ (response_id :> payload.d[K_data])
                       /\ local' = [local EXCEPT
                                      ![j].response = Some(SubmitAck(response_id))]
  /\ calls' = [calls EXCEPT ![j] = @ + 1]
  /\ UNCHANGED <<jobs, rate_limit_storage>>
  /\ UNCHANGED_by_process_job

\* tasks.py:109-115 (sync: clean the response, status := complete with the
\* result) and 124-133 (async: vendor_response_id := response_id, status :=
\* processing)
pj_store(j) ==
  /\ pc[j] = "store"
  /\ LET response == local[j].response[1]
         update_data ==
           IF local[j].vendor_type[1] = "sync"
           THEN [status |-> "complete",
                 result |-> Some(clean_vendor_response(response))]
           ELSE [vendor_response_id |->
                   IF Get(response, K_response_id) = None THEN None
                   ELSE Some(Get(response, K_response_id)[1].s),
                 status |-> "processing"]
         r == update_job(jobs, j, update_data, now)
     IN IF r.raised
        THEN /\ pc' = [pc EXCEPT ![j] = "except"]
             /\ local' = [local EXCEPT ![j].exc = Some("ValidationError")]
             /\ UNCHANGED jobs
        ELSE /\ jobs' = r.jobs
             /\ pc' = [pc EXCEPT ![j] = "done"]
             /\ local' = [local EXCEPT ![j] = InitLocal]
  /\ UNCHANGED <<rate_limit_storage, pending_requests, issued, calls>>
  /\ UNCHANGED_by_process_job

\* tasks.py:140-153  the handler: status := failed with str(e); an exception
\* of that update is swallowed (bare except), then the exception is re-raised
pj_except(j) ==
  /\ pc[j] = "except"
  /\ LET r == update_job(jobs, j,
                         [status |-> "failed", error |-> local[j].exc], now)
     IN jobs' = IF r.raised THEN jobs ELSE r.jobs
  /\ pc' = [pc EXCEPT ![j] = "raised"]
  /\ local' = [local EXCEPT ![j] = InitLocal]
  /\ UNCHANGED <<rate_limit_storage, pending_requests, issued, calls>>
  /\ UNCHANGED_by_process_job

\* ---------------------------------------------------------------- webhooks
\* vendor_webhook with a lookup of the job before the task is queued: 404 when
\* no job has the identifier
vendor_webhook_lookup(data) ==
  LET response_id == Get(data, K_response_id) IN
  /\ http_request' = Some(data)
  /\ IF response_id = None \/ response_id[1] = Str(<<>>)
     THEN /\ http_status' = 400
          /\ UNCHANGED webhook_tasks
     ELSE IF response_id[1].s \notin DOMAIN jobs
     THEN /\ http_status' = 404
          /\ UNCHANGED webhook_tasks
     ELSE /\ webhook_tasks' =
               webhook_tasks \cup
                 {[request_id |-> response_id[1].s, vendor_data |-> data]}
          /\ http_status' = 200

\* main.py:141-170  vendor_webhook: response_id is read inside "data" and is
\* used as the request_id of the task (line 159); 400 when it is missing
vendor_webhook(data) ==
  LET response_id == Get(data, K_response_id) IN
  /\ http_request' = Some(data)
  /\ IF response_id = None \/ response_id[1] = Str(<<>>)
     THEN /\ http_status' = 400
          /\ UNCHANGED webhook_tasks
     ELSE /\ webhook_tasks' =
               webhook_tasks \cup
                 {[request_id |-> response_id[1].s, vendor_data |-> data]}
          /\ http_status' = 200

\* a call of POST /vendor-webhook/{vendor} by an outside caller
post_vendor_webhook ==
  /\ webhooks_posted < MaxWebhooks
  /\ Cardinality(webhook_tasks) < MaxQueued
  /\ webhooks_posted' = webhooks_posted + 1
  /\ \E data \in ExternalDatas(webhooks_posted + 1) : vendor_webhook(data)
  /\ UNCHANGED <<required_fields, settings, broker_up, now, clock_steps, jobs,
                 rate_limit_storage, pc, local, pending_requests, issued,
                 calls, raw_data,
                 cleaned_data, acq_hist>>

\* async_vendor.py:54-101  process_request_async: the vendor posts
\* {"response_id": id, "data": response_data} to the webhook endpoint (a
\* failure of the POST is only logged) and forgets the request
process_request_async(response_id) ==
  /\ response_id \in DOMAIN pending_requests
  /\ \E delivered \in BOOLEAN :
       IF delivered
       THEN vendor_webhook(
              AsyncResponseData(response_id, pending_requests[response_id]))
       ELSE UNCHANGED <<webhook_tasks, http_status, http_request>>
  /\ pending_requests' =
       [r \in DOMAIN pending_requests \ {response_id} |-> pending_requests[r]]
  /\ UNCHANGED <<required_fields, settings, broker_up, now, clock_steps, jobs,
                 rate_limit_storage, pc, local, webhooks_posted, issued,
                 calls, raw_data,
                 cleaned_data, acq_hist>>

\* tasks.py:156-192  handle_vendor_webhook(request_id, vendor_data): clean the
\* data, status := complete with the result; on an exception status := failed
\* (an exception of that update is swallowed)
handle_vendor_webhook(task) ==
  /\ task \in webhook_tasks
  /\ webhook_tasks' = webhook_tasks \ {task}
  /\ LET cleaned_response == clean_vendor_response(task.vendor_data)
         r == update_job(jobs, task.request_id,
                         [status |-> "complete",
                          result |-> Some(cleaned_response)], now)
         f == update_job(jobs, task.request_id,
                         [status |-> "failed",
                          error |-> Some("ValidationError")], now)
     IN jobs' = IF ~r.raised THEN r.jobs
                ELSE IF ~f.raised THEN f.jobs ELSE jobs
  /\ UNCHANGED <<required_fields, settings, broker_up, now, clock_steps,
                 rate_limit_storage, pc, local, webhooks_posted,
                 pending_requests, issued, http_status, http_request, calls, raw_data,
                 cleaned_data, acq_hist>>

\* ------------------------------------------------- sequential acquisitions
\* tasks.py:90-96 run by one caller at a time: check_rate_limit and, when it
\* admits, update_rate_limit; acq_hist records each acquisition
tryAcquire(vendor_type) ==
  /\ Len(acq_hist) < MaxAcquisitions
  /\ LET c == check_rate_limit(rate_limit_storage, vendor_type,
                               RateLimit(vendor_type), now)
     IN /\ rate_limit_storage' =
             IF c.ok THEN update_rate_limit(c.storage, vendor_type, now)
             ELSE c.storage
        /\ acq_hist' = Append(acq_hist,
             [t |-> now, vendor_type |-> vendor_type, ok |-> c.ok])
  /\ UNCHANGED <<required_fields, settings, broker_up, now, clock_steps, jobs, pc, local,
                 webhook_tasks, webhooks_posted, pending_requests, issued,
                 http_status, http_request, calls,
                 raw_data, cleaned_data>>

\* ---------------------------------------------------------- specifications
Next ==
  \/ Tick
  \/ create_job
  \/ \E j \in RequestIds : pj_begin(j)
  \/ \E j \in RequestIds : pj_check(j)
  \/ \E j \in RequestIds : pj_admit(j)
  \/ \E j \in RequestIds : pj_call_vendor(j)
  \/ \E j \in RequestIds : pj_store(j)
  \/ \E j \in RequestIds : pj_except(j)
  \/ post_vendor_webhook
  \/ \E response_id \in ResponseIds : process_request_async(response_id)
  \/ \E task \in webhook_tasks : handle_vendor_webhook(task)

Spec == Init /\ [][Next]_vars

\* the rate limiter used by one caller at a time, from its clean state
InitLimiter ==
  /\ required_fields = {"payload"}
  /\ broker_up = TRUE
  /\ InitCommon(1..MaxQuota, MaxClockSteps)
  /\ raw_data = None
  /\ cleaned_data = None

NextLimiter ==
  \/ Tick
  \/ \E vendor_type \in VendorTypes : tryAcquire(vendor_type)

SpecLimiter == InitLimiter /\ [][NextLimiter]_vars

\* the service with a broker that is reachable or not
InitIntake ==
  /\ required_fields \in Schemas
  /\ broker_up \in BOOLEAN
  /\ InitCommon(1..MaxJobQuota, MaxJobClockSteps)
  /\ raw_data = None
  /\ cleaned_data = None

SpecIntake == InitIntake /\ [][Next]_vars

\* ------------------------------------------------------------ sanitization
\* vendor responses of one key: the key is a PII word in capitals or in small
\* letters, or no PII word; the value is a string, a number, a list, an object
\* or a list of objects
CleanKeys == <<K_email, <<"p","h","o","n","e">>, K_status>>
CleanLeaves ==
  <<Str(S_padded_ok), Str(S_address), Num(5), List(<<Str(S_address)>>),
    List(<<Num(5)>>)>>
CleanObjects ==
  [i \in 1..(Len(CleanKeys) * Len(CleanLeaves)) |->
     Dict(CleanKeys[((i - 1) \div Len(CleanLeaves)) + 1]
            :> CleanLeaves[((i - 1) % Len(CleanLeaves)) + 1])]
CleanValues ==
  CleanLeaves \o CleanObjects
    \o [i \in 1..Len(CleanObjects) |-> List(<<CleanObjects[i]>>)]
CleanInputs ==
  [i \in 1..(Len(CleanKeys) * Len(CleanValues)) |->
     Dict(CleanKeys[((i - 1) \div Len(CleanValues)) + 1]
            :> CleanValues[((i - 1) % Len(CleanValues)) + 1])]

\* tasks.py:110, 163  cleaned_response = clean_vendor_response(response)
sanitize ==
  /\ raw_data # None
  /\ cleaned_data = None
  /\ cleaned_data' = Some(clean_vendor_response(raw_data[1]))
  /\ UNCHANGED <<required_fields, settings, broker_up, now, clock_steps, jobs,
                 rate_limit_storage, pc, local, webhook_tasks, webhooks_posted,
                 pending_requests, issued, http_status, http_request, calls,
                 raw_data, acq_hist>>

InitClean ==
  /\ required_fields = {"payload"}
  /\ broker_up = TRUE
  /\ InitCommon(1..MaxJobQuota, MaxJobClockSteps)
  /\ \E i \in 1..Len(CleanInputs) : raw_data = Some(CleanInputs[i])
  /\ cleaned_data = None

NextClean == sanitize

SpecClean == InitClean /\ [][NextClean]_vars

\* ------------------------------------------------------------------ claims
Terminal == {"complete", "failed"}

\* models.py:9-13  the status changes the state machine allows
AllowedTransitions ==
  { <<"pending", "processing">>, <<"processing", "complete">>,
    <<"processing", "failed">> }

\* this step runs the queued task handle_vendor_webhook(task)
Handled(task) == task \in webhook_tasks /\ task \notin webhook_tasks'

\* job j holds the correlation token id
HoldsToken(j, id) == jobs[j].vendor_response_id = Some(id)

CompletedByDelivery(j, id) ==
  /\ jobs[j].status = "complete"
  /\ jobs[j].result # None
  /\ Get(jobs[j].result[1], K_response_id) = Some(Str(id))

MatchesNoJob(id) ==
  /\ id \notin DOMAIN jobs
  /\ \A j \in DOMAIN jobs : ~HoldsToken(j, id)

HistoryOf(vendor_type) ==
  SelectSeq(acq_hist, LAMBDA e : e.vendor_type = vendor_type)

\* the i-th acquisition falls in the 60 seconds that start with the second in
\* which the first one was admitted (the window as the limiter records it)
InFirstWindow(h, i) ==
  h[i].t <= ((h[1].t \div TicksPerSecond) + MinuteSeconds) * TicksPerSecond

\* C8: from a clean limiter, of the sequential acquisitions for one vendor
\* type that fall in the first window, exactly the first N are admitted
\* (N the quota) and every later one is denied.
C8_FirstWindowAdmitsExactlyQuota ==
  \A vendor_type \in VendorTypes :
    LET h == HistoryOf(vendor_type) IN
    \A i \in 1..Len(h) :
      InFirstWindow(h, i) => (h[i].ok <=> i <= RateLimit(vendor_type))

\* the quota was used up and a further acquisition in the window was denied
C8_Witness ==
  \E vendor_type \in VendorTypes :
    LET h == HistoryOf(vendor_type)
        n == RateLimit(vendor_type)
    IN /\ Len(h) > n
       /\ InFirstWindow(h, n + 1)
       /\ ~h[n + 1].ok
       /\ \A i \in 1..n : h[i].ok

C10_EndedRunWasDispatched ==
  \A j \in DOMAIN jobs : pc[j] \in {"done", "raised"} => calls[j] >= 1

PayloadField2(payload) ==
  IF K_field2 \in DOMAIN payload.d THEN payload.d[K_field2].n
  ELSE Field2Of(payload.d[K_data])

C13_CallbackAlwaysAccepted ==
  http_request # None => http_status = 200

\* the answer to a callback as a function of the callback alone
AnswerTo(data) ==
  IF Get(data, K_response_id) \in {None, Some(Str(<<>>))} THEN 400 ELSE 200

\* C14: the answer to a callback is determined by the callback alone: in
\* every state, whichever jobs exist and whatever their statuses and tokens,
\* the last callback was answered AnswerTo of its data.
C14_AnswerIndependentOfJobs ==
  http_request # None => http_status = AnswerTo(http_request[1])

\* a callback whose identifier matches no job was answered while a job exists
C14_Witness ==
  /\ http_request # None
  /\ Get(http_request[1], K_response_id) # None
  /\ MatchesNoJob(Get(http_request[1], K_response_id)[1].s)
  /\ jobs # <<>>
  /\ http_status = 200

C16_UnresolvedTokensDistinct ==
  \A j \in DOMAIN jobs : \A k \in DOMAIN jobs :
    ( /\ j # k
      /\ jobs[j].status \notin Terminal
      /\ jobs[k].status \notin Terminal
      /\ jobs[j].vendor_response_id # None )
    => jobs[j].vendor_response_id # jobs[k].vendor_response_id

\* two jobs await their callbacks at once, each with a token
C16_Witness ==
  \E j \in DOMAIN jobs : \E k \in DOMAIN jobs :
    /\ j # k
    /\ jobs[j].status = "processing" /\ jobs[j].vendor_response_id # None
    /\ jobs[k].status = "processing" /\ jobs[k].vendor_response_id # None

\* C17: vendor_type is set only by the job's own process_job, when it has
\* been admitted, and once set no step changes or unsets it.
C17_VendorTypeSetOnce ==
  [][\A j \in DOMAIN jobs :
       /\ jobs[j].vendor_type # None => jobs'[j].vendor_type = jobs[j].vendor_type
       /\ jobs'[j].vendor_type # jobs[j].vendor_type
            => (pc[j] = "admit" /\ jobs'[j].vendor_type \in {Some("sync"), Some("async")})]_vars

\* a job whose vendor_type was set has since been written again
C17_Witness ==
  \E j \in DOMAIN jobs :
    /\ jobs[j].vendor_type # None
    /\ jobs[j].status \in Terminal

C19_StatusQueryReflectsStore ==
  \A id \in CallbackIds :
    LET r == get_job_status(jobs, id) IN
    IF id \notin DOMAIN jobs
    THEN r.status_code = 404 /\ r.body = None
    ELSE /\ r.status_code = 200
         /\ r.body # None
         /\ r.body[1].status = jobs[id].status
         /\ r.body[1].result = jobs[id].result
         /\ r.body[1].error = jobs[id].error

\* one job has a result, another an error, and an id is unknown
C19_Witness ==
  /\ \E j \in DOMAIN jobs : get_job_status(jobs, j).body[1].result # None
  /\ \E j \in DOMAIN jobs : get_job_status(jobs, j).body[1].error # None
  /\ get_job_status(jobs, StrayId).status_code = 404

\* the key contains one of the PII words, whatever the case of its letters
IsPiiKey(key) == \E pii \in PiiWords : Contains(pii, lower(key))

\* in the cleaned object some key with a PII word, at some depth, still has
\* the value it had in the original
RECURSIVE PiiKept(_, _)
PiiKept(original, cleaned) ==
  \E key \in DOMAIN original.d :
    LET value == original.d[key]
        after == cleaned.d[key]
    IN \/ IsPiiKey(key) /\ after.t = value.t /\ after = value
       \/ value.t = "dict" /\ after.t = "dict" /\ PiiKept(value, after)
       \/ /\ value.t = "list" /\ after.t = "list"
          /\ \E i \in 1..Len(value.d) :
               /\ value.d[i].t = "dict" /\ after.d[i].t = "dict"
               /\ PiiKept(value.d[i], after.d[i])

\* C20: in what clean_vendor_response returns, no key with a PII word, at any
\* depth, has the value it had before, of whatever type that value is.
C20_NoPiiValueKept ==
  cleaned_data # None => ~PiiKept(raw_data[1], cleaned_data[1])

\* C21: cleaning what clean_vendor_response returned gives the same again.
C21_SanitizationIdempotent ==
  cleaned_data # None
    => clean_vendor_response(cleaned_data[1]) = cleaned_data[1]

\* a response that cleaning has changed
C21_Witness ==
  /\ cleaned_data # None
  /\ cleaned_data # raw_data

\* C22: no step changes the request_id or the payload of a job.
C22_IdAndPayloadImmutable ==
  [][\A j \in DOMAIN jobs :
       /\ jobs'[j].request_id = jobs[j].request_id
       /\ jobs'[j].payload = jobs[j].payload]_vars

\* a job that process_job and a callback have both written still has the
\* payload it was created with
C22_Witness ==
  \E j \in DOMAIN jobs :
    /\ jobs[j].vendor_response_id # None
    /\ jobs[j].status = "complete"
    /\ jobs[j].payload = WrappedPayload
    /\ jobs[j].request_id = j

\* C23: the first update of process_job takes effect: a job whose process_job
\* has begun is not pending.
C23_BegunJobNotPending ==
  \A j \in DOMAIN jobs :
    pc[j] \notin {"none", "queued"} => jobs[j].status # "pending"

\* the whole seconds between the first acquisition of a history, which opens
\* the first window, and its i-th acquisition
SecondsSinceWindowStart(h, i) ==
  (h[i].t \div TicksPerSecond) - (h[1].t \div TicksPerSecond)

\* C24: when every earlier acquisition fell inside the first window, a check
\* made more than 60 seconds after that window was opened is admitted,
\* whatever was admitted inside the window.
C24_AgedWindowAdmits ==
  \A vendor_type \in VendorTypes :
    LET h == HistoryOf(vendor_type) IN
    \A i \in 1..Len(h) :
      ( /\ SecondsSinceWindowStart(h, i) > MinuteSeconds
        /\ \A k \in 1..(i - 1) : InFirstWindow(h, k) )
      => h[i].ok

\* the admissions of a history that lie less than 60 seconds before its i-th
\* acquisition, that one included
AdmittedWithinMinuteBefore(h, i) ==
  {k \in 1..i : h[k].ok /\ h[i].t - h[k].t < MinuteSeconds * TicksPerSecond}

\* C30: with one caller acquiring sequentially, no interval shorter than 60
\* seconds holds more admissions for a vendor type than its quota.
C30_SlidingWindowWithinQuota ==
  \A vendor_type \in VendorTypes :
    LET h == HistoryOf(vendor_type) IN
    \A i \in 1..Len(h) :
      Cardinality(AdmittedWithinMinuteBefore(h, i)) <= RateLimit(vendor_type)

\* the job awaits its callback: processing, routed to the async vendor, with
\* the token stored
AwaitingCallback(j) ==
  /\ jobs[j].status = "processing"
  /\ jobs[j].vendor_type = Some("async")
  /\ jobs[j].vendor_response_id # None

\* C25: a run of process_job that has ended has left its job complete, failed
\* or awaiting its callback.
C25_EndedRunLeftJobSettled ==
  \A j \in DOMAIN jobs :
    pc[j] \in {"done", "raised"}
      => (jobs[j].status \in Terminal \/ AwaitingCallback(j))

\* C26: a job calls a vendor only from the place after its admission, with the
\* admitted vendor type written to it; it gets there only by the step that
\* adds one to the counter of that type, and to that step only by a check that
\* admitted it; a check that denied it changes neither the job nor its calls.
C26_CallOnlyAfterRecordedAdmission ==
  [][\A j \in DOMAIN jobs :
       /\ calls'[j] # calls[j]
            => /\ pc[j] = "call"
               /\ local[j].vendor_type # None
               /\ jobs[j].vendor_type = local[j].vendor_type
       /\ (pc'[j] = "call" /\ pc[j] # "call")
            => /\ pc[j] = "admit"
               /\ LET vendor_type == local[j].vendor_type[1] IN
                  rate_limit_storage'[vendor_type].requests_this_minute
                    = rate_limit_storage[vendor_type].requests_this_minute + 1
       /\ (pc'[j] = "admit" /\ pc[j] # "admit")
            => /\ pc[j] = "check"
               /\ LET vendor_type == local[j].vendor_type[1] IN
                  check_rate_limit(rate_limit_storage, vendor_type,
                                   RateLimit(vendor_type), now).ok
       /\ (pc[j] = "check" /\ local'[j].wake # local[j].wake)
            => /\ jobs'[j] = jobs[j]
               /\ calls'[j] = calls[j]
               /\ pc'[j] = "check"]_vars

\* one job has made its call while another, denied, waits for its next check
C26_Witness ==
  \E j \in DOMAIN jobs : \E k \in DOMAIN jobs :
    /\ calls[j] = 1
    /\ pc[k] = "check" /\ local[k].wake > now
    /\ calls[k] = 0 /\ jobs[k].status = "processing"

\* C27: a complete job has a result and a failed job has an error.
C27_TerminalStatusHasOutcome ==
  \A j \in DOMAIN jobs :
    /\ jobs[j].status = "complete" => jobs[j].result # None
    /\ jobs[j].status = "failed" => jobs[j].error # None

\* one job is complete and another is failed
C27_Witness ==
  \E j \in DOMAIN jobs : \E k \in DOMAIN jobs :
    /\ jobs[j].status = "complete" /\ jobs[j].result # None
    /\ jobs[k].status = "failed" /\ jobs[k].error # None

C29_NoJobLeftUnqueued ==
  \A j \in DOMAIN jobs : pc[j] # "none"

\* C31: a job is dispatched at most once and only to the vendor type chosen
\* for it: its count of vendor calls changes only by the call step of its own
\* run, from 0 to 1, and a response_id is issued by that step exactly when the
\* chosen type is async; the step after its admission adds one to the counter
\* of the chosen type and leaves the other type's alone; and a run of
\* process_job that ends has made exactly one call.
C31_RunDispatchesExactlyOnce ==
  [][\A j \in DOMAIN jobs :
       /\ calls'[j] # calls[j]
            => /\ pc[j] = "call" /\ pc'[j] \in {"store", "except"}
               /\ calls[j] = 0 /\ calls'[j] = 1
               /\ jobs[j].vendor_type = local[j].vendor_type
               /\ (issued' # issued)
                    <=> (pc'[j] = "store" /\ local[j].vendor_type = Some("async"))
       /\ (pc[j] = "admit" /\ pc'[j] # "admit")
            => \A vendor_type \in VendorTypes :
                 rate_limit_storage'[vendor_type].requests_this_minute
                   = rate_limit_storage[vendor_type].requests_this_minute
                     + (IF local[j].vendor_type = Some(vendor_type) THEN 1 ELSE 0)
       /\ (pc'[j] \in {"done", "raised"} /\ pc[j] \notin {"done", "raised"})
            => calls'[j] = 1]_vars

====
